---- MODULE Spec2Model ----
(***************************************************************************)
(* polars_extensions.xml: xml_normalize and _fully_flatten.                *)
(*                                                                         *)
(* Strings that the code cuts apart (tags in Clark notation "{ns}local",   *)
(* element text that is stripped, the dotted record path) are kept as      *)
(* sequences of tokens, so that split/strip are computed and not assumed;  *)
(* Join turns a token sequence into the string the code builds keys from.  *)
(* A Python dict is a sequence of <<key, value>> pairs with distinct keys, *)
(* in insertion order.  Python / polars values are tagged records:         *)
(*   [k |-> "s", s |-> string]      a str                                  *)
(*   [k |-> "l", items |-> seq]     a list                                 *)
(*   [k |-> "d", ents |-> pairs]    a dict (a struct value in a table)     *)
(*   [k |-> "null"]                 None / a null cell                     *)
(***************************************************************************)
EXTENDS Naturals, Sequences, FiniteSets, TLC

VARIABLES root, record_path, include_attributes, flatten, strict,
          pc, parent_nodes, records, df, df_in, error

vars == <<root, record_path, include_attributes, flatten, strict,
          pc, parent_nodes, records, df, df_in, error>>

-----------------------------------------------------------------------------
(* Generic sequence helpers *)

Range(s) == {s[i] : i \in 1..Len(s)}

RECURSIVE Join(_)
Join(toks) == IF toks = <<>> THEN "" ELSE Head(toks) \o Join(Tail(toks))

RECURSIVE Flat(_)
Flat(ss) == IF ss = <<>> THEN <<>> ELSE Head(ss) \o Flat(Tail(ss))

RECURSIVE SumSeq(_)
SumSeq(ns) == IF ns = <<>> THEN 0 ELSE Head(ns) + SumSeq(Tail(ns))

Map(s, Op(_)) == [i \in 1..Len(s) |-> Op(s[i])]

\* the distinct elements of s, in first-seen order
Distinct(s) == Flat([i \in 1..Len(s) |->
                       IF \E j \in 1..(i-1) : s[j] = s[i] THEN <<>> ELSE <<s[i]>>])

\* all sequences over S of length lo..hi
SeqsBetween(S, lo, hi) == UNION {[1..n -> S] : n \in lo..hi}

-----------------------------------------------------------------------------
(* Python values *)

Str(s)    == [k |-> "s", s |-> s]
List(xs)  == [k |-> "l", items |-> xs]
Dict(es)  == [k |-> "d", ents |-> es]
None      == [k |-> "null"]

Keys(d) == [i \in 1..Len(d) |-> d[i][1]]
HasKey(d, key) == \E i \in 1..Len(d) : d[i][1] = key
Get(d, key) == d[CHOOSE i \in 1..Len(d) : d[i][1] = key][2]

\* d[key] = val : an existing key keeps its position, a new one is appended
DictSet(d, key, val) ==
    IF HasKey(d, key)
    THEN [i \in 1..Len(d) |-> IF d[i][1] = key THEN <<key, val>> ELSE d[i]]
    ELSE Append(d, <<key, val>>)

\* the dict left by performing the writes d[k] = v of `writes` in order
RECURSIVE DictUpdate(_, _)
DictUpdate(d, writes) ==
    IF writes = <<>> THEN d
    ELSE DictUpdate(DictSet(d, Head(writes)[1], Head(writes)[2]), Tail(writes))

-----------------------------------------------------------------------------
(* ElementTree elements: [tag, attrib, text, children].  tag and attribute *)
(* names are token sequences (<<"{", "u", "}", "book">> is "{u}book"),     *)
(* attrib is a sequence of <<name tokens, value string>>, text a sequence  *)
(* of characters (<<>> for None or ""), children a sequence of elements.   *)

Element(tag, attrib, text, children) ==
    [tag |-> tag, attrib |-> attrib, text |-> text, children |-> children]

Whitespace == {" ", "\n", "\t"}

\* str.strip(): leading and trailing whitespace removed
RECURSIVE LStrip(_, _)
LStrip(toks, chars) ==
    IF toks # <<>> /\ Head(toks) \in chars THEN LStrip(Tail(toks), chars) ELSE toks

RECURSIVE RStrip(_, _)
RStrip(toks, chars) ==
    IF toks # <<>> /\ toks[Len(toks)] \in chars
    THEN RStrip(SubSeq(toks, 1, Len(toks) - 1), chars) ELSE toks

Strip(toks, chars) == RStrip(LStrip(toks, chars), chars)

\* str.split(sep): the pieces between the separators, as token sequences
RECURSIVE Split(_, _)
Split(toks, sep) ==
    IF \A i \in 1..Len(toks) : toks[i] # sep THEN <<toks>>
    ELSE LET i == CHOOSE j \in 1..Len(toks) :
                      toks[j] = sep /\ \A h \in 1..(j-1) : toks[h] # sep
         IN  <<SubSeq(toks, 1, i - 1)>> \o Split(SubSeq(toks, i + 1, Len(toks)), sep)

\* tag.split("}")[-1] if "}" in tag else tag
strip_ns(tag) ==
    IF "}" \in Range(tag)
    THEN LET pieces == Split(tag, "}") IN Join(pieces[Len(pieces)])
    ELSE Join(tag)

\* f"{parent_path}.{strip_ns(element.tag)}" if parent_path else strip_ns(element.tag)
PathPrefix(element, parent_path) ==
    IF parent_path # "" THEN parent_path \o "." \o strip_ns(element.tag)
    ELSE strip_ns(element.tag)

\* element.text.strip() if element.text else None ("" stands for both None and "")
StrippedText(element) == Join(Strip(element.text, Whitespace))

\* children_by_tag: the distinct local names of the children, first seen first
ChildTags(element) == Distinct([i \in 1..Len(element.children) |->
                                   strip_ns(element.children[i].tag)])

Siblings(element, tag) == SelectSeq(element.children, LAMBDA c : strip_ns(c.tag) = tag)

-----------------------------------------------------------------------------
(* flatten_element: the assignments data[key] = value it performs, in      *)
(* order (a size-1 group's data.update writes every entry of the child's   *)
(* dict), and the dict they leave.                                         *)

RECURSIVE flatten_element(_, _), FlattenWrites(_, _)

AttributeWrites(element, path_prefix) ==
    IF include_attributes
    THEN [i \in 1..Len(element.attrib) |->
            <<path_prefix \o "." \o strip_ns(element.attrib[i][1]),
              Str(element.attrib[i][2])>>]
    ELSE <<>>

\* the text stored under the element's own path, without the ".text" suffix
TextWritesBareKey(element, path_prefix) ==
    LET text == StrippedText(element)
    IN  IF text # "" /\ Len(element.children) = 0
        THEN << <<path_prefix, Str(text)>> >>
        ELSE <<>>

TextWrites(element, path_prefix) ==
    LET text == StrippedText(element)
    IN  IF text # "" /\ Len(element.children) = 0
        THEN << <<path_prefix \o ".text", Str(text)>> >>
        ELSE <<>>

\* repeated siblings flattened under the accumulated prefix instead of ""
GroupWritesKeepPrefix(element, path_prefix, tag) ==
    LET siblings == Siblings(element, tag)
    IN  IF Len(siblings) = 1
        THEN flatten_element(siblings[1], path_prefix)
        ELSE << <<path_prefix \o "." \o tag,
                  List([j \in 1..Len(siblings) |->
                          Dict(flatten_element(siblings[j], path_prefix))])>> >>

GroupWrites(element, path_prefix, tag) ==
    LET siblings == Siblings(element, tag)
    IN  IF Len(siblings) = 1
        THEN flatten_element(siblings[1], path_prefix)
        ELSE << <<path_prefix \o "." \o tag,
                  List([j \in 1..Len(siblings) |->
                          Dict(flatten_element(siblings[j], ""))])>> >>

FlattenWrites(element, parent_path) ==
    LET path_prefix == PathPrefix(element, parent_path)
        tags        == ChildTags(element)
    IN  AttributeWrites(element, path_prefix)
        \o TextWrites(element, path_prefix)
        \o Flat([i \in 1..Len(tags) |-> GroupWrites(element, path_prefix, tags[i])])

flatten_element(element, parent_path) ==
    DictUpdate(<<>>, FlattenWrites(element, parent_path))

-----------------------------------------------------------------------------
(* Record path: a sequence of tokens, "." among them; <<>> is None or "".  *)

\* node.findall(f"./{p}"): the immediate children whose tag is p
FindChildren(node, p) == SelectSeq(node.children, LAMBDA c : Join(c.tag) = p)

\* node.iter(): the node and its descendants in document order
RECURSIVE Iter(_)
Iter(node) == <<node>> \o Flat([i \in 1..Len(node.children) |-> Iter(node.children[i])])

\* node.findall(f".//{tag}"): the descendants, at any depth, whose tag is tag
FindDescendants(node, tag) ==
    SelectSeq(Flat([i \in 1..Len(node.children) |-> Iter(node.children[i])]),
              LAMBDA e : Join(e.tag) = tag)

\* record_path.strip(".").split(".")
Parts(path) == Map(Split(Strip(path, {"."}), "."), Join)

\* parts[:-1] taken as parts: the record tag is walked as one more parent
ParentPartsAll(path) == Parts(path)

ParentParts(path) == SubSeq(Parts(path), 1, Len(Parts(path)) - 1)

RecordTag(path) == Parts(path)[Len(Parts(path))]

\* '.'.join(parts)
RECURSIVE DotJoin(_)
DotJoin(parts) ==
    IF parts = <<>> THEN ""
    ELSE IF Len(parts) = 1 THEN parts[1]
    ELSE parts[1] \o "." \o DotJoin(Tail(parts))

\* lines 70-75: walk the parent parts from [root]
RECURSIVE Navigate(_, _)
Navigate(nodes, parent_parts) ==
    IF parent_parts = <<>> THEN nodes
    ELSE Navigate(Flat([i \in 1..Len(nodes) |-> FindChildren(nodes[i], Head(parent_parts))]),
                  Tail(parent_parts))

\* lines 84-90: the parent's own attributes and text
ParentData(parent) ==
    LET name == strip_ns(parent.tag)
        text == StrippedText(parent)
    IN  DictUpdate(<<>>,
          (IF include_attributes
           THEN [i \in 1..Len(parent.attrib) |->
                   <<name \o "." \o strip_ns(parent.attrib[i][1]), Str(parent.attrib[i][2])>>]
           ELSE <<>>)
          \o (IF text # "" THEN << <<name \o ".text", Str(text)>> >> ELSE <<>>))

\* {**record_data, **parent_data}: the parent's value kept on a collision
MergeParentWins(parent_data, record_data) == DictUpdate(record_data, parent_data)

\* {**parent_data, **record_data}
Merge(parent_data, record_data) == DictUpdate(parent_data, record_data)

\* lines 82-97: the records found under one parent
RecordsUnder(parent, record_tag) ==
    LET record_nodes == FindDescendants(parent, record_tag)
    IN  [j \in 1..Len(record_nodes) |->
           Merge(ParentData(parent), flatten_element(record_nodes[j], ""))]

ExtractRecords(parents, record_tag) ==
    Flat([i \in 1..Len(parents) |-> RecordsUnder(parents[i], record_tag)])

-----------------------------------------------------------------------------
(* wrap_primitives *)

RECURSIVE wrap_primitives(_)

\* without the test of line 108: a list of scalars is recursed into as well
wrap_primitives_every_list(obj) ==
    IF obj.k = "d"
    THEN Dict([i \in 1..Len(obj.ents) |-> <<obj.ents[i][1], wrap_primitives(obj.ents[i][2])>>])
    ELSE IF obj.k = "l"
    THEN List([i \in 1..Len(obj.items) |-> wrap_primitives(obj.items[i])])
    ELSE List(<<obj>>)

wrap_primitives(obj) ==
    IF obj.k = "d"
    THEN Dict([i \in 1..Len(obj.ents) |-> <<obj.ents[i][1], wrap_primitives(obj.ents[i][2])>>])
    ELSE IF obj.k = "l"
    THEN IF \A i \in 1..Len(obj.items) : obj.items[i].k \notin {"d", "l"}
         THEN obj
         ELSE List([i \in 1..Len(obj.items) |-> wrap_primitives(obj.items[i])])
    ELSE List(<<obj>>)

-----------------------------------------------------------------------------
(* polars tables.  A dtype is [k |-> "str"], [k |-> "null"],               *)
(* [k |-> "list", inner |-> dtype] or [k |-> "struct", fields |-> pairs];  *)
(* a DataFrame is [schema |-> <<name, dtype>> pairs, rows |-> rows of      *)
(* cells in schema order, err |-> the exception raised building it or ""]. *)

TStr          == [k |-> "str"]
TNull         == [k |-> "null"]
TList(inner)  == [k |-> "list", inner |-> inner]
TStruct(fs)   == [k |-> "struct", fields |-> fs]
TMismatch     == [k |-> "mismatch"]

DataFrame(schema, rows) == [schema |-> schema, rows |-> rows, err |-> ""]
Raised(err) == [schema |-> <<>>, rows |-> <<>>, err |-> err]

Columns(frame) == Keys(frame.schema)
ColumnIndex(frame, col) == CHOOSE i \in 1..Len(frame.schema) : frame.schema[i][1] = col
HasDuplicates(names) == \E i, j \in 1..Len(names) : i < j /\ names[i] = names[j]

\* the supertype of two dtypes; a str against a list or a struct has none
RECURSIVE Unify(_, _), UnifyFields(_, _)
Unify(t1, t2) ==
    IF t1.k = "mismatch" \/ t2.k = "mismatch" THEN TMismatch
    ELSE IF t1.k = "null" THEN t2
    ELSE IF t2.k = "null" THEN t1
    ELSE IF t1.k # t2.k THEN TMismatch
    ELSE IF t1.k = "list" THEN
         LET inner == Unify(t1.inner, t2.inner)
         IN  IF inner.k = "mismatch" THEN TMismatch ELSE TList(inner)
    ELSE IF t1.k = "struct" THEN
         LET fs == UnifyFields(t1.fields, t2.fields)
         IN  IF \E i \in 1..Len(fs) : fs[i][2].k = "mismatch" THEN TMismatch ELSE TStruct(fs)
    ELSE TStr

UnifyFields(fs, gs) ==
    IF gs = <<>> THEN fs
    ELSE LET name == Head(gs)[1]
             t    == Head(gs)[2]
         IN  UnifyFields(IF HasKey(fs, name) THEN DictSet(fs, name, Unify(Get(fs, name), t))
                         ELSE Append(fs, <<name, t>>),
                         Tail(gs))

RECURSIVE UnifyAll(_)
UnifyAll(ts) == IF ts = <<>> THEN TNull ELSE Unify(Head(ts), UnifyAll(Tail(ts)))

\* the dtype polars infers for one Python value
RECURSIVE TypeOf(_)
TypeOf(v) ==
    IF v.k = "s" THEN TStr
    ELSE IF v.k = "null" THEN TNull
    ELSE IF v.k = "l" THEN
         LET inner == UnifyAll([i \in 1..Len(v.items) |-> TypeOf(v.items[i])])
         IN  IF inner.k = "mismatch" THEN TMismatch ELSE TList(inner)
    ELSE LET fs == [i \in 1..Len(v.ents) |-> <<v.ents[i][1], TypeOf(v.ents[i][2])>>]
         IN  IF \E i \in 1..Len(fs) : fs[i][2].k = "mismatch" THEN TMismatch ELSE TStruct(fs)

\* the cell a value becomes in a column of dtype t: absent struct fields are null
RECURSIVE Conform(_, _)
Conform(v, t) ==
    IF v.k = "null" THEN None
    ELSE IF t.k = "list" THEN List([i \in 1..Len(v.items) |-> Conform(v.items[i], t.inner)])
    ELSE IF t.k = "struct" THEN
         Dict([i \in 1..Len(t.fields) |->
                 <<t.fields[i][1],
                   IF HasKey(v.ents, t.fields[i][1])
                   THEN Conform(Get(v.ents, t.fields[i][1]), t.fields[i][2])
                   ELSE None>>])
    ELSE v

\* pl.from_dicts(records): one column per key seen, typed by the values seen
from_dicts(recs) ==
    IF recs = <<>> THEN Raised("NoDataError")
    ELSE LET t == UnifyAll([i \in 1..Len(recs) |-> TypeOf(recs[i])])
         IN  IF t.k = "mismatch" THEN Raised("TypeMismatch")
             ELSE DataFrame(t.fields,
                            [i \in 1..Len(recs) |-> Map(Conform(recs[i], t).ents,
                                                        LAMBDA e : e[2])])

\* df.explode(col): one row per list element; a null or empty list gives one null row
\* a null or empty list leaves no row at all
ExplodeRowDropEmpty(row, c) ==
    IF row[c].k = "null" \/ Len(row[c].items) = 0
    THEN <<>>
    ELSE [j \in 1..Len(row[c].items) |-> [row EXCEPT ![c] = row[c].items[j]]]

ExplodeRow(row, c) ==
    IF row[c].k = "null" \/ Len(row[c].items) = 0
    THEN << [row EXCEPT ![c] = None] >>
    ELSE [j \in 1..Len(row[c].items) |-> [row EXCEPT ![c] = row[c].items[j]]]

explode(frame, col) ==
    LET c == ColumnIndex(frame, col)
    IN  [frame EXCEPT !.schema[c] = <<col, frame.schema[c][2].inner>>,
                      !.rows = Flat([i \in 1..Len(frame.rows) |-> ExplodeRow(frame.rows[i], c)])]

\* df.unnest(col): the struct's fields take the column's place, under their own names
UnnestRow(row, c, fields) ==
    SubSeq(row, 1, c - 1)
    \o [j \in 1..Len(fields) |-> IF row[c].k = "null" THEN None ELSE row[c].ents[j][2]]
    \o SubSeq(row, c + 1, Len(row))

unnest(frame, col) ==
    LET c      == ColumnIndex(frame, col)
        fields == frame.schema[c][2].fields
        schema == SubSeq(frame.schema, 1, c - 1) \o fields
                  \o SubSeq(frame.schema, c + 1, Len(frame.schema))
    IN  IF HasDuplicates(Keys(schema)) THEN Raised("DuplicateError")
        ELSE DataFrame(schema, [i \in 1..Len(frame.rows) |-> UnnestRow(frame.rows[i], c, fields)])

\* df.rename({f: f"{col}.{f}" for f in fields})
rename(frame, col, fields) ==
    LET schema == [i \in 1..Len(frame.schema) |->
                     IF frame.schema[i][1] \in Range(fields)
                     THEN <<col \o "." \o frame.schema[i][1], frame.schema[i][2]>>
                     ELSE frame.schema[i]]
    IN  IF HasDuplicates(Keys(schema)) THEN Raised("DuplicateError")
        ELSE [frame EXCEPT !.schema = schema]

-----------------------------------------------------------------------------
(* _fully_flatten: one iteration of its while loop *)

ListCols(frame) ==
    Keys(SelectSeq(frame.schema, LAMBDA e : e[2].k = "list"))

StructCols(frame) ==
    Keys(SelectSeq(frame.schema, LAMBDA e : e[2].k = "struct"))

\* lines 136-137
RECURSIVE ExplodeAll(_, _)
ExplodeAll(frame, cols) ==
    IF cols = <<>> THEN frame ELSE ExplodeAll(explode(frame, Head(cols)), Tail(cols))

\* lines 140-142
UnnestOne(frame, col) ==
    LET fields   == Keys(frame.schema[ColumnIndex(frame, col)][2].fields)
        unnested == unnest(frame, col)
    IN  IF unnested.err # "" THEN unnested ELSE rename(unnested, col, fields)

\* lines 139-142
RECURSIVE UnnestAll(_, _)
UnnestAll(frame, cols) ==
    IF cols = <<>> \/ frame.err # "" THEN frame
    ELSE UnnestAll(UnnestOne(frame, Head(cols)), Tail(cols))

\* lines 130-142
FlattenPassOf(frame) ==
    UnnestAll(ExplodeAll(frame, ListCols(frame)), StructCols(frame))

-----------------------------------------------------------------------------
(* Inputs *)

Name(s) == <<s>>
Qualified(ns, s) == <<"{", ns, "}", s>>
Attr(name, value) == <<name, value>>

\* <catalog><book id="1"><title>A</title></book><book id="2"><title>B</title></book></catalog>
Book(id, title) ==
    Element(Name("book"), <<Attr(Name("id"), id)>>, <<>>,
            <<Element(Name("title"), <<>>, <<title>>, <<>>)>>)

Catalog == Element(Name("catalog"), <<>>, <<>>, <<Book("1", "A"), Book("2", "B")>>)

MaxChildren == 2

Leaf1 == Element(Name("b"), <<Attr(Name("id"), "3")>>, <<"x">>, <<>>)
Leaf2 == Element(Name("b"), <<Attr(Name("text"), "4")>>, <<" ", "y", "\n">>, <<>>)
Mid1  == Element(Name("b"), <<Attr(Name("id"), "1")>>, <<>>, <<>>)
Mid2  == Element(Qualified("u", "b"),
                 <<Attr(Qualified("u", "id"), "5"), Attr(Name("id"), "2")>>, <<"m">>, <<>>)
Root1 == Element(Name("b"), <<Attr(Name("id"), "0"), Attr(Name("b"), "7")>>,
                 <<"r", " ">>, <<>>)
Root2 == Element(Name("a"), <<Attr(Name("text"), "8")>>, <<"s">>, <<>>)

WithChildren(labels, kids) ==
    {[l EXCEPT !.children = c] : l \in labels, c \in kids}

\* a middle element has no child, one leaf, or the two leaves as a repeated group
LeafGroups == {<<>>, <<Leaf1>>, <<Leaf2>>, <<Leaf1, Leaf2>>}

MidNodes == WithChildren({Mid1, Mid2}, LeafGroups)

\* <a text="8"><b id="1">(two b leaves)</b><b id="1">(two b leaves)</b></a>
Nested ==
    [Root2 EXCEPT !.children = << [Mid1 EXCEPT !.children = <<Leaf1, Leaf2>>],
                                  [Mid1 EXCEPT !.children = <<Leaf2, Leaf1>>] >>]

Path(segments) ==
    IF segments = <<>> THEN <<>>
    ELSE Flat([i \in 1..Len(segments) |->
                 IF i = 1 THEN <<segments[i]>> ELSE <<".", segments[i]>>])

\* paths over the names of the generated documents, and over the catalog's
GenericPaths ==
    { <<>>, Path(<<"b">>), Path(<<"b", "b">>),
      <<".", "catalog", ".", "missingTag", ".", "book", ".">> }

CatalogPaths == { Path(<<"book">>), Path(<<"catalog", "book">>) }

-----------------------------------------------------------------------------
(* xml_normalize, step by step *)

NoFrame == DataFrame(<<>>, <<>>)

Init ==
    /\ \/ /\ root \in {Catalog, Nested}
          /\ record_path \in GenericPaths \cup CatalogPaths
       \/ /\ \E label \in {Root1, Root2} : \E n \in 0..MaxChildren :
                \E children \in [1..n -> MidNodes] :
                   root = [label EXCEPT !.children = children]
          /\ record_path \in GenericPaths
    /\ include_attributes \in BOOLEAN
    /\ flatten \in BOOLEAN
    /\ strict \in BOOLEAN
    /\ pc = "start"
    /\ parent_nodes = <<>>
    /\ records = <<>>
    /\ df = NoFrame
    /\ df_in = NoFrame
    /\ error = ""

Inputs == <<root, record_path, include_attributes, flatten, strict>>

\* lines 64-78
ResolveParents ==
    /\ pc = "start"
    /\ record_path # <<>>
    /\ LET nodes == Navigate(<<root>>, ParentParts(record_path))
       IN  /\ parent_nodes' = nodes
           /\ IF nodes = <<>>
              THEN /\ pc' = "raised"
                   /\ error' = "Parent path '" \o DotJoin(ParentParts(record_path))
                                \o "' not found in XML."
              ELSE /\ pc' = "parents"
                   /\ error' = error
    /\ UNCHANGED <<Inputs, records, df, df_in>>

\* lines 80-97
Extract ==
    /\ pc = "parents"
    /\ records' = Map(ExtractRecords(parent_nodes, RecordTag(record_path)), Dict)
    /\ pc' = "records"
    /\ UNCHANGED <<Inputs, parent_nodes, df, df_in, error>>

\* lines 99-101
FlattenRoot ==
    /\ pc = "start"
    /\ record_path = <<>>
    /\ records' = <<Dict(flatten_element(root, ""))>>
    /\ pc' = "records"
    /\ UNCHANGED <<Inputs, parent_nodes, df, df_in, error>>

\* lines 114-115
Wrap ==
    /\ pc = "records"
    /\ ~strict
    /\ records' = Map(records, wrap_primitives)
    /\ pc' = "wrapped"
    /\ UNCHANGED <<Inputs, parent_nodes, df, df_in, error>>

\* lines 118-124
Materialize ==
    /\ \/ pc = "records" /\ strict
       \/ pc = "wrapped"
    /\ LET frame == from_dicts(records)
       IN  IF frame.err # ""
           THEN /\ pc' = "raised"
                /\ error' = frame.err
                /\ UNCHANGED <<df, df_in>>
           ELSE /\ pc' = IF flatten THEN "flatten" ELSE "done"
                /\ df' = frame
                /\ df_in' = frame
                /\ error' = error
    /\ UNCHANGED <<Inputs, parent_nodes, records>>

\* lines 129-142: one iteration of the loop
FlattenPass ==
    /\ pc = "flatten"
    /\ ListCols(df) # <<>> \/ StructCols(df) # <<>>
    /\ LET frame == FlattenPassOf(df)
       IN  IF frame.err # ""
           THEN /\ pc' = "raised"
                /\ error' = frame.err
                /\ df' = df
           ELSE /\ pc' = "flatten"
                /\ error' = error
                /\ df' = frame
    /\ UNCHANGED <<Inputs, parent_nodes, records, df_in>>

\* lines 133-134, 144
FlattenBreak ==
    /\ pc = "flatten"
    /\ ListCols(df) = <<>> /\ StructCols(df) = <<>>
    /\ pc' = "done"
    /\ UNCHANGED <<Inputs, parent_nodes, records, df, df_in, error>>

Next ==
    \/ ResolveParents
    \/ Extract
    \/ FlattenRoot
    \/ Wrap
    \/ Materialize
    \/ FlattenPass
    \/ FlattenBreak

Spec == Init /\ [][Next]_vars

-----------------------------------------------------------------------------
(* _fully_flatten applied to a table given directly *)

MaxRows == 2
MaxListLen == 2

Scalars == {Str("1"), None}

ListCells(items) ==
    {None} \cup {List(xs) : xs \in SeqsBetween(items, 0, MaxListLen)}

CellsOf(dtype) ==
    IF dtype = TList(TStr) THEN ListCells(Scalars)
    ELSE IF dtype = TList(TList(TStr))
         THEN ListCells({List(<<>>), List(<<Str("1"), Str("2")>>)})
    ELSE IF dtype.k = "struct"
         THEN {None, Dict(<< <<dtype.fields[1][1], Str("1")>> >>)}
    ELSE IF dtype.k = "list"
         THEN ListCells({Dict(<< <<dtype.inner.fields[1][1], Str("1")>> >>)})
    ELSE {Str("p"), Str("q")}

SecondColumnDtypes ==
    { TList(TStr), TList(TList(TStr)),
      TStruct(<< <<"z", TStr>> >>), TStruct(<< <<"x", TStr>> >>),
      TList(TStruct(<< <<"z", TStr>> >>)) }

\* tables with a str column x and a second column y
Table(dtype, rows) == DataFrame(<< <<"x", TStr>>, <<"y", dtype>> >>, rows)

InitTable ==
    /\ \E t \in SecondColumnDtypes : \E n \in 1..MaxRows :
          \E rows \in [1..n -> CellsOf(TStr) \X CellsOf(t)] :
             /\ df = Table(t, rows)
             /\ df_in = Table(t, rows)
    /\ pc = "flatten"
    /\ root = Catalog
    /\ record_path = <<>>
    /\ include_attributes = TRUE
    /\ flatten = TRUE
    /\ strict = TRUE
    /\ parent_nodes = <<>>
    /\ records = <<>>
    /\ error = ""

NextTable ==
    \/ FlattenPass
    \/ FlattenBreak

SpecTable == InitTable /\ [][NextTable]_vars

-----------------------------------------------------------------------------
(* Properties *)

BookRecord(id_key, id, title_key, title) ==
    Dict(<< <<id_key, Str(id)>>, <<title_key, Str(title)>> >>)

CatalogBook == Path(<<"catalog", "book">>)
MissingTagPath == <<".">> \o Path(<<"catalog", "missingTag", "book">>) \o <<".">>

\* the records are in `records` unchanged from extraction up to the table
RecordsAsExtracted == pc = "records" \/ (strict /\ pc \in {"flatten", "done"})

\* C1 as stated: for the catalog document, record_path "catalog.book" with
\* attributes included gives, without error, exactly the two records
\* {book.id: "1", book.title: "A"} and {book.id: "2", book.title: "B"}.
C1_AsStated ==
    (root = Catalog /\ record_path = CatalogBook /\ include_attributes) =>
        /\ pc # "raised"
        /\ RecordsAsExtracted =>
             records = << BookRecord("book.id", "1", "book.title", "A"),
                          BookRecord("book.id", "2", "book.title", "B") >>

\* C1 as amended: the path is walked from the root's children, so "catalog.book"
\* raises "Parent path 'catalog' not found in XML."; record_path "book" gives
\* exactly two records in document order, the title text under book.title.text:
\* {book.id: "1", book.title.text: "A"}, {book.id: "2", book.title.text: "B"},
\* and the table built from them has these two columns and two rows.
C1_CatalogBookRecords ==
    /\ (root = Catalog /\ record_path = CatalogBook /\ pc # "start") =>
          /\ pc = "raised"
          /\ error = "Parent path 'catalog' not found in XML."
    /\ (root = Catalog /\ record_path = Path(<<"book">>) /\ include_attributes) =>
          /\ pc # "raised"
          /\ RecordsAsExtracted =>
               records = << BookRecord("book.id", "1", "book.title.text", "A"),
                            BookRecord("book.id", "2", "book.title.text", "B") >>
          /\ pc = "done" =>
               /\ Columns(df) = <<"book.id", "book.title.text">>
               /\ Len(df.rows) = 2
               /\ (strict \/ flatten) =>
                    df.rows = << <<Str("1"), Str("A")>>, <<Str("2"), Str("B")>> >>

C1_Witness ==
    /\ root = Catalog /\ record_path = Path(<<"book">>) /\ include_attributes
    /\ pc = "done" /\ Len(records) = 2 /\ Len(df.rows) = 2

\* C2 as stated: for the catalog document and no record path there is one record,
\* catalog.book a list of {id: "1", title: "A"} and {id: "2", title: "B"}; with
\* flatten the table has two rows and the columns catalog.book.id, catalog.book.title.
C2_AsStated ==
    (root = Catalog /\ record_path = <<>> /\ include_attributes) =>
        /\ RecordsAsExtracted =>
             records = << Dict(<< <<"catalog.book",
                                    List(<< BookRecord("id", "1", "title", "A"),
                                            BookRecord("id", "2", "title", "B") >>)>> >>) >>
        /\ (pc = "done" /\ flatten) =>
             /\ Columns(df) = <<"catalog.book.id", "catalog.book.title">>
             /\ Len(df.rows) = 2

\* C2 as amended: one record, catalog.book a list of the two sub-records
\* {book.id: "1", book.title.text: "A"} and {book.id: "2", book.title.text: "B"}
\* (each keyed from its own tag); with flatten the table has two rows and exactly
\* the columns catalog.book.book.id and catalog.book.book.title.text.
C2_CatalogWholeDocument ==
    (root = Catalog /\ record_path = <<>> /\ include_attributes) =>
        /\ pc # "raised"
        /\ RecordsAsExtracted =>
             records = << Dict(<< <<"catalog.book",
                                    List(<< BookRecord("book.id", "1", "book.title.text", "A"),
                                            BookRecord("book.id", "2", "book.title.text", "B") >>)>> >>) >>
        /\ (pc = "done" /\ flatten) =>
             /\ Columns(df) = <<"catalog.book.book.id", "catalog.book.book.title.text">>
             /\ df.rows = << <<Str("1"), Str("A")>>, <<Str("2"), Str("B")>> >>

C2_Witness ==
    /\ root = Catalog /\ record_path = <<>> /\ include_attributes /\ flatten
    /\ pc = "done" /\ Len(records) = 1 /\ Len(df.rows) = 2

\* the ancestor part of a record path, read off its tokens: the path without
\* its outer dots and without its last dot and segment
AncestorPathName(path) ==
    LET inner == Strip(path, {"."}) IN Join(SubSeq(inner, 1, Len(inner) - 2))

\* C3: whenever the walk over the ancestor segments ends with no node, the call
\* raises an error naming the ancestor path (catalog.missingTag for
\* "catalog.missingTag.book") and no records or table are produced.
C3_PathNotFound ==
    /\ (record_path # <<>> /\ pc # "start" /\ parent_nodes = <<>>) =>
          /\ pc = "raised"
          /\ error = "Parent path '" \o AncestorPathName(record_path) \o "' not found in XML."
          /\ records = <<>>
          /\ df = NoFrame
    /\ (root = Catalog /\ record_path = MissingTagPath /\ pc # "start") =>
          /\ pc = "raised"
          /\ error = "Parent path 'catalog.missingTag' not found in XML."

C3_Witness ==
    /\ root = Catalog /\ record_path = MissingTagPath
    /\ pc = "raised" /\ parent_nodes = <<>>
    /\ error = "Parent path 'catalog.missingTag' not found in XML."

\* every element of the document, and whether all sibling groups have size 1
Elements(node) == Range(Iter(node))

SingleOccurrence(node) ==
    \A n \in Elements(node) : \A i \in 1..Len(ChildTags(n)) :
        Len(Siblings(n, ChildTags(n)[i])) = 1

\* the <<full dotted ancestry, value>> of every attribute and every leaf text
RECURSIVE LeafEntries(_, _)
LeafEntries(node, ancestry) ==
    LET here == IF ancestry = "" THEN strip_ns(node.tag)
                ELSE ancestry \o "." \o strip_ns(node.tag)
    IN  (IF include_attributes
         THEN {<<here \o "." \o strip_ns(node.attrib[i][1]), node.attrib[i][2]>> :
                 i \in 1..Len(node.attrib)}
         ELSE {})
        \cup (IF node.children = <<>> /\ StrippedText(node) # ""
              THEN {<<here \o ".text", StrippedText(node)>>} ELSE {})
        \cup UNION {LeafEntries(node.children[i], here) : i \in 1..Len(node.children)}

\* C4 as stated: a document whose sibling groups all have size 1, flattened with
\* no record path, gives one record whose keys are exactly the full dotted
\* ancestries of its attributes and leaf texts, each mapped to that value.
C4_AsStated ==
    (record_path = <<>> /\ SingleOccurrence(root) /\ RecordsAsExtracted) =>
        /\ Len(records) = 1
        /\ Range(Keys(records[1].ents)) = {e[1] : e \in LeafEntries(root, "")}
        /\ \A e \in LeafEntries(root, "") :
              /\ HasKey(records[1].ents, e[1])
              /\ Get(records[1].ents, e[1]) = Str(e[2])

\* the ancestors and the record nodes under them, as the code found them
RecordPairs ==
    Flat([i \in 1..Len(parent_nodes) |->
            LET found == FindDescendants(parent_nodes[i], RecordTag(record_path))
            IN  [j \in 1..Len(found) |-> <<parent_nodes[i], found[j]>>]])

\* an ancestor's own metadata: the keys, and the values it holds for a key
AncestorKeys(parent, with_attributes) ==
    (IF with_attributes
     THEN {strip_ns(parent.tag) \o "." \o strip_ns(parent.attrib[i][1]) :
             i \in 1..Len(parent.attrib)}
     ELSE {})
    \cup (IF StrippedText(parent) # "" THEN {strip_ns(parent.tag) \o ".text"} ELSE {})

AncestorValues(parent, key) ==
    {Str(parent.attrib[i][2]) : i \in {h \in 1..Len(parent.attrib) :
        strip_ns(parent.tag) \o "." \o strip_ns(parent.attrib[h][1]) = key}}
    \cup (IF key = strip_ns(parent.tag) \o ".text" THEN {Str(StrippedText(parent))} ELSE {})

MergedRecords(with_attributes) ==
    /\ Len(records) = Len(RecordPairs)
    /\ \A i \in 1..Len(records) :
          LET rec    == records[i].ents
              parent == RecordPairs[i][1]
              own    == flatten_element(RecordPairs[i][2], "")
          IN  /\ \A key \in AncestorKeys(parent, with_attributes) : HasKey(rec, key)
              /\ \A h \in 1..Len(own) : HasKey(rec, own[h][1]) /\ Get(rec, own[h][1]) = own[h][2]
              /\ \A h \in 1..Len(rec) :
                    \/ HasKey(own, rec[h][1])
                    \/ /\ rec[h][1] \in AncestorKeys(parent, with_attributes)
                       /\ rec[h][2] \in AncestorValues(parent, rec[h][1])

\* C5 as stated: one record per (ancestor, record node) pair, ancestors outer and
\* records inner in document order, each the ancestor's attributes and direct
\* text overlaid by the record node's flattened entries, the record's value kept
\* on a collision.
C5_AsStated ==
    (record_path # <<>> /\ RecordsAsExtracted) => MergedRecords(TRUE)

\* C5 as amended: the same, the ancestor's metadata holding its attributes only
\* when include_attributes is true (its direct text always).
C5_RecordPerPair ==
    (record_path # <<>> /\ RecordsAsExtracted) => MergedRecords(include_attributes)

C5_Witness ==
    /\ pc = "records" /\ record_path # <<>> /\ include_attributes
    /\ Len(parent_nodes) = 2 /\ Len(records) = 2
    /\ \E key \in AncestorKeys(RecordPairs[1][1], TRUE) :
          /\ HasKey(flatten_element(RecordPairs[1][2], ""), key)
          /\ Get(records[1].ents, key) \notin AncestorValues(RecordPairs[1][1], key)

\* every str of a value is the single element of a list
RECURSIVE AllWrapped(_)
AllWrapped(v) ==
    IF v.k = "d" THEN \A i \in 1..Len(v.ents) : AllWrapped(v.ents[i][2])
    ELSE IF v.k = "l"
    THEN \/ Len(v.items) = 1 /\ v.items[1].k = "s"
         \/ \A i \in 1..Len(v.items) : v.items[i].k \in {"d", "l"} /\ AllWrapped(v.items[i])
    ELSE FALSE

\* C6: in lenient mode, after wrap_primitives every str, at the top level and
\* inside nested record lists, is the single element of a list, and applying
\* wrap_primitives again changes nothing.
C6_WrapPrimitives ==
    (~strict /\ pc \in {"wrapped", "flatten", "done"}) =>
        /\ \A i \in 1..Len(records) : AllWrapped(records[i])
        /\ Map(records, wrap_primitives) = records

C6_Witness ==
    /\ pc = "wrapped" /\ root = Nested /\ record_path = <<>> /\ include_attributes
    /\ Len(records) = 1

\* C7 as stated: _fully_flatten ends without error and leaves no list or struct
\* column (so that a further application returns the table unchanged).
C7_AsStated ==
    /\ error # "DuplicateError"
    /\ (pc = "done" /\ flatten) => ListCols(df) = <<>> /\ StructCols(df) = <<>>

\* the one list column of a table that has no other list or struct column
OneListColumn(frame) ==
    /\ Len(ListCols(frame)) = 1
    /\ StructCols(frame) = <<>>

ListLens(frame) ==
    LET c == ColumnIndex(frame, ListCols(frame)[1])
    IN  [i \in 1..Len(frame.rows) |->
           IF frame.rows[i][c].k = "null" THEN 0 ELSE Len(frame.rows[i][c].items)]

AtLeastOne(n) == IF n < 1 THEN 1 ELSE n

ExplodedCount(frame) == SumSeq(Map(ListLens(frame), AtLeastOne))

\* the rows made from input row i are rows Offset(i)+1 .. Offset(i)+max(li, 1)
Offset(frame, i) == SumSeq(Map(SubSeq(ListLens(frame), 1, i - 1), AtLeastOne))

\* row count, and the other columns repeated along the rows of one input row
RowCountLaw ==
    /\ pc # "raised"
    /\ pc = "done" =>
         /\ Len(df.rows) = ExplodedCount(df_in)
         /\ \A i \in 1..Len(df_in.rows) : \A j \in 1..AtLeastOne(ListLens(df_in)[i]) :
               \A c \in 1..Len(df_in.schema) :
                  df_in.schema[c][2].k # "list" =>
                     df.rows[Offset(df_in, i) + j][c] = df_in.rows[i][c]

\* the list column itself: its elements one per row, null for an empty list
ElementLaw ==
    pc = "done" =>
       LET c == ColumnIndex(df_in, ListCols(df_in)[1])
       IN  \A i \in 1..Len(df_in.rows) : \A j \in 1..AtLeastOne(ListLens(df_in)[i]) :
              df.rows[Offset(df_in, i) + j][c] =
                 IF ListLens(df_in)[i] = 0 THEN None ELSE df_in.rows[i][c].items[j]

\* C8 as stated: a table with exactly one list column, of lengths l1, l2, ..., and
\* no other list or struct column comes out of _fully_flatten with exactly the
\* sum of max(li, 1) rows, every other column repeated unchanged.
C8_AsStated ==
    OneListColumn(df_in) => RowCountLaw

\* C8 as amended: the same for a list column whose elements are scalars (neither
\* lists nor structs): sum of max(li, 1) rows, a row with an empty list giving
\* one row with null in that column, every other column repeated unchanged.
C8_ExplodeRowCount ==
    (OneListColumn(df_in) /\ df_in.schema[2][2] = TList(TStr)) =>
        RowCountLaw /\ ElementLaw

C8_Witness ==
    /\ pc = "done" /\ OneListColumn(df_in) /\ df_in.schema[2][2] = TList(TStr)
    /\ Len(df_in.rows) = 2
    /\ ListLens(df_in) = <<0, 2>>
    /\ Len(df.rows) = 3

\* the walk and the search by local (namespace-stripped) name
LocalChildren(node, segment) ==
    SelectSeq(node.children, LAMBDA c : strip_ns(c.tag) = segment)

RECURSIVE LocalNavigate(_, _)
LocalNavigate(nodes, segments) ==
    IF segments = <<>> THEN nodes
    ELSE LocalNavigate(Flat([i \in 1..Len(nodes) |-> LocalChildren(nodes[i], Head(segments))]),
                       Tail(segments))

LocalDescendants(node, name) ==
    SelectSeq(Flat([i \in 1..Len(node.children) |-> Iter(node.children[i])]),
              LAMBDA e : strip_ns(e.tag) = name)

\* C9 as stated: from {root}, each ancestor segment selects the immediate children
\* whose local name is the segment, and the record nodes of an ancestor are all
\* its descendants whose local name is the last segment, also in documents whose
\* tags are namespace-qualified.
C9_AsStated ==
    (record_path # <<>> /\ pc # "start") =>
        /\ parent_nodes = LocalNavigate(<<root>>, ParentParts(record_path))
        /\ RecordsAsExtracted =>
             Len(records) = SumSeq([i \in 1..Len(parent_nodes) |->
                                      Len(LocalDescendants(parent_nodes[i],
                                                           RecordTag(record_path)))])

\* C10 as stated: flatten_element never assigns two of its entries (attributes,
\* text, inlined child entries, record lists) to the same key, for any element.
C10_AsStated ==
    (record_path = <<>> /\ RecordsAsExtracted) =>
        \A n \in Elements(root) : ~HasDuplicates(Keys(FlattenWrites(n, "")))

====
